---- MODULE Spec2Model ----
(***************************************************************************)
(* The two converters of the repository: script/bibtex2html.py            *)
(* (bibliography files to an HTML publication list) and                    *)
(* script/presentation_html.py (presentation logs to an HTML page and an   *)
(* optional chart).                                                        *)
(*                                                                         *)
(* A text (a Python str) is a sequence of characters; every character is a *)
(* one-character string; a character outside ASCII, and the grave accent,  *)
(* is written by its code point ("U+00E4").  A dict is a function on its   *)
(* set of keys.                                                            *)
(***************************************************************************)
EXTENDS Integers, Sequences, FiniteSets, TLC

VARIABLES
    \* bibtex2html.py
    args_first,     \* args.first: the --first files, <<>> when the flag is absent
    args_Nth,       \* args.Nth: the --Nth files, <<>> when the flag is absent
    pc,             \* position of bibtex2html.main
    tables,         \* the tables generated so far, in page order
    output_html,    \* the output file of bibtex2html.main
    \* presentation_html.py
    domestic,       \* the file args.domestic names
    international,  \* the file args.international names
    fig,            \* args.fig
    p_pc,           \* position of presentation_html.main
    domestic_entries,
    international_entries,
    p_output,       \* the output file of presentation_html.main
    image           \* the chart file at args.fig

bibvars == <<args_first, args_Nth, pc, tables, output_html>>
presvars == <<domestic, international, fig, p_pc, domestic_entries,
              international_entries, p_output, image>>
vars == <<bibvars, presvars>>

----------------------------------------------------------------------------
(* Python's str and int operations, as the scripts use them. *)

Whitespace == {" ", "\t", "\n", "\r"}
Digits == <<"0", "1", "2", "3", "4", "5", "6", "7", "8", "9">>
IsDigit(c) == \E i \in 1..Len(Digits) : Digits[i] = c
DigitVal(c) == (CHOOSE i \in 1..Len(Digits) : Digits[i] = c) - 1

RECURSIVE lstrip(_)
lstrip(s) == IF s /= <<>> /\ Head(s) \in Whitespace THEN lstrip(Tail(s)) ELSE s

RECURSIVE rstrip(_)
rstrip(s) ==
    IF s /= <<>> /\ s[Len(s)] \in Whitespace
    THEN rstrip(SubSeq(s, 1, Len(s) - 1))
    ELSE s

\* str.strip()
strip(s) == rstrip(lstrip(s))

StartsWith(s, p) == Len(p) <= Len(s) /\ SubSeq(s, 1, Len(p)) = p

Occurs(p, s) == \E i \in 1..(Len(s) - Len(p) + 1) : SubSeq(s, i, i + Len(p) - 1) = p

\* str.replace(old, new): every non-overlapping occurrence, left to right
\* (a text that does not hold old is returned as it is)
RECURSIVE replace_rest(_, _, _)
replace_rest(s, old, new) ==
    IF s = <<>> THEN <<>>
    ELSE IF StartsWith(s, old)
         THEN new \o replace_rest(SubSeq(s, Len(old) + 1, Len(s)), old, new)
         ELSE <<Head(s)>> \o replace_rest(Tail(s), old, new)

replace(s, old, new) == IF Occurs(old, s) THEN replace_rest(s, old, new) ELSE s

\* sep.join(parts)
RECURSIVE join(_, _)
join(sep, parts) ==
    IF parts = <<>> THEN <<>>
    ELSE IF Len(parts) = 1 THEN parts[1]
    ELSE parts[1] \o sep \o join(sep, Tail(parts))

\* (mutant) no part filtered out
unfiltered(parts) == parts

\* filter(None, parts): the non-empty parts, in order
RECURSIVE filter_nonempty(_)
filter_nonempty(parts) ==
    IF parts = <<>> THEN <<>>
    ELSE IF Head(parts) = <<>> THEN filter_nonempty(Tail(parts))
    ELSE <<Head(parts)>> \o filter_nonempty(Tail(parts))

\* The literal int() accepts: surrounding whitespace, an optional sign, then
\* digits that single underscores may separate.
IntBody(s) ==
    LET t == strip(s)
    IN  IF t /= <<>> /\ Head(t) \in {"+", "-"} THEN Tail(t) ELSE t

IntNegative(s) == LET t == strip(s) IN t /= <<>> /\ Head(t) = "-"

IsIntLiteral(s) ==
    LET u == IntBody(s)
    IN  /\ u /= <<>>
        /\ \A i \in 1..Len(u) : IsDigit(u[i]) \/ u[i] = "_"
        /\ IsDigit(u[1])
        /\ IsDigit(u[Len(u)])
        /\ \A i \in 1..(Len(u) - 1) : ~(u[i] = "_" /\ u[i + 1] = "_")

RECURSIVE DigitsValue(_, _)
DigitsValue(u, acc) ==
    IF u = <<>> THEN acc
    ELSE DigitsValue(Tail(u),
                     IF Head(u) = "_" THEN acc ELSE acc * 10 + DigitVal(Head(u)))

\* int(s) where it does not raise ValueError
int(s) ==
    LET v == DigitsValue(IntBody(s), 0)
    IN  IF IntNegative(s) THEN 0 - v ELSE v

RECURSIVE NatStr(_)
NatStr(n) ==
    IF n < 10 THEN <<Digits[n + 1]>>
    ELSE NatStr(n \div 10) \o <<Digits[(n % 10) + 1]>>

\* str(n) of an int
str(n) == IF n < 0 THEN <<"-">> \o NatStr(0 - n) ELSE NatStr(n)

\* d.get(key, default)
Get(d, key, default) == IF key \in DOMAIN d THEN d[key] ELSE default

----------------------------------------------------------------------------
(* bibtex2html.py *)
\* The dict literal, as Python builds it: in first-insertion order of the
\* keys, the second value of the repeated key \aap replacing the first.
JOURNAL_MAP ==
    << << <<"\\", "p", "a", "s", "j">>,
          <<"P", "u", "b", "l", "i", "c", "a", "t", "i", "o", "n", "s", " ", "o", "f", " ", "t", "h", "e", " ", "A", "s", "t", "r", "o", "n", "o", "m", "i", "c", "a", "l", " ", "S", "o", "c", "i", "e", "t", "y", " ", "o", "f", " ", "J", "a", "p", "a", "n">> >>,
       << <<"\\", "n", "a", "t">>,
          <<"N", "a", "t", "u", "r", "e">> >>,
       << <<"\\", "i", "c", "a", "r", "u", "s">>,
          <<"I", "c", "a", "r", "u", "s">> >>,
       << <<"\\", "a", "j">>,
          <<"A", "s", "t", "r", "o", "n", "o", "m", "i", "c", "a", "l", " ", "J", "o", "u", "r", "n", "a", "l">> >>,
       << <<"\\", "a", "p", "j">>,
          <<"A", "s", "t", "r", "o", "p", "h", "y", "s", "i", "c", "a", "l", " ", "J", "o", "u", "r", "n", "a", "l">> >>,
       << <<"\\", "a", "p", "j", "l">>,
          <<"A", "p", "J", "L">> >>,
       << <<"\\", "a", "p", "j", "s">>,
          <<"A", "p", "J", "S">> >>,
       << <<"\\", "p", "a", "s", "p">>,
          <<"P", "A", "S", "P">> >>,
       << <<"\\", "m", "n", "r", "a", "s">>,
          <<"M", "N", "R", "A", "S">> >>,
       << <<"\\", "a", "a", "p">>,
          <<"A", "s", "t", "r", "o", "n", "o", "m", "y", " ", "&", " ", "A", "s", "t", "r", "o", "p", "h", "y", "s", "i", "c", "s">> >>,
       << <<"\\", "g", "r", "l">>,
          <<"G", "R", "L">> >>,
       << <<"\\", "p", "s", "j">>,
          <<"P", "S", "J">> >>,
       << <<"\\", "a", "r", "a", "a">>,
          <<"A", "R", "A", "A">> >>,
       << <<"\\", "g", "c", "a">>,
          <<"G", "C", "A">> >> >>

\* The dict literal, in insertion order.
LATEX_ACCENTS ==
    << << <<"\\", "\"", "a">>,
          <<"U+00E4">> >>,
       << <<"\\", "\"", "o">>,
          <<"U+00F6">> >>,
       << <<"\\", "\"", "u">>,
          <<"U+00FC">> >>,
       << <<"\\", "\"", "A">>,
          <<"U+00C4">> >>,
       << <<"\\", "\"", "O">>,
          <<"U+00D6">> >>,
       << <<"\\", "\"", "U">>,
          <<"U+00DC">> >>,
       << <<"\\", "'", "a">>,
          <<"U+00E1">> >>,
       << <<"\\", "'", "e">>,
          <<"U+00E9">> >>,
       << <<"\\", "'", "i">>,
          <<"U+00ED">> >>,
       << <<"\\", "'", "o">>,
          <<"U+00F3">> >>,
       << <<"\\", "'", "u">>,
          <<"U+00FA">> >>,
       << <<"\\", "U+0060", "a">>,
          <<"U+00E0">> >>,
       << <<"\\", "U+0060", "e">>,
          <<"U+00E8">> >>,
       << <<"\\", "U+0060", "i">>,
          <<"U+00EC">> >>,
       << <<"\\", "U+0060", "o">>,
          <<"U+00F2">> >>,
       << <<"\\", "U+0060", "u">>,
          <<"U+00F9">> >>,
       << <<"\\", "~", "n">>,
          <<"U+00F1">> >>,
       << <<"\\", "s", "s">>,
          <<"U+00DF">> >>,
       << <<"\\", "^", "a">>,
          <<"U+00E2">> >>,
       << <<"\\", "^", "e">>,
          <<"U+00EA">> >>,
       << <<"\\", "^", "i">>,
          <<"U+00EE">> >>,
       << <<"\\", "^", "o">>,
          <<"U+00F4">> >>,
       << <<"\\", "^", "u">>,
          <<"U+00FB">> >> >>

\* The string literals of bib_to_table_rows.
SENTINEL_TEXT == <<"9", "9", "9", "9">>
NO_TITLE == <<"N", "o", " ", "t", "i", "t", "l", "e">>
UNKNOWN == <<"U", "n", "k", "n", "o", "w", "n">>
ET_AL == <<",", " ", "e", "t", " ", "a", "l", ".">>
COMMA == <<",", " ">>
BOLD_OPEN == <<"<", "b", ">">>
BOLD_CLOSE == <<"<", "/", "b", ">">>
DOI_PREFIX == <<"h", "t", "t", "p", "s", ":", "/", "/", "d", "o", "i", ".", "o", "r", "g", "/">>
HASH == <<"#">>
\* {} -- the empty dict
EmptyDict == [k \in {} |-> <<>>]

SENTINEL_YEAR == 9999

\* latex_to_unicode: the accent substitutions from entry k of LATEX_ACCENTS on
RECURSIVE replace_accents(_, _)
replace_accents(text, k) ==
    IF k > Len(LATEX_ACCENTS) THEN text
    ELSE replace_accents(replace(text, LATEX_ACCENTS[k][1], LATEX_ACCENTS[k][2]),
                         k + 1)

latex_to_unicode(text) ==
    replace(replace(replace_accents(text, 1), <<"{">>, <<>>), <<"}">>, <<>>)

normalize_journal(journal) ==
    LET stripped == strip(journal)
        hits == {k \in 1..Len(JOURNAL_MAP) : JOURNAL_MAP[k][1] = stripped}
    IN  IF hits = {} THEN stripped
        ELSE JOURNAL_MAP[CHOOSE k \in hits : TRUE][2]

\* pybtex's parse_file: the entries of a well-formed file, in file order.  It
\* raises on a file that is unreadable or malformed (file.ok = FALSE).
parse_file(file) == file.entries

\* year_int of an entry
year_int(entry) ==
    LET year_str == Get(entry.fields, "year", SENTINEL_TEXT)
    IN  IF IsIntLiteral(year_str) THEN int(year_str) ELSE SENTINEL_YEAR

\* all_entries after the loop over bib_files: (year_int, entry) pairs
\* (mutant) all_entries emptied at every file: the last file's entries only
pool_last_file(bib_files) ==
    IF bib_files = <<>> THEN <<>>
    ELSE LET entries == parse_file(bib_files[Len(bib_files)])
         IN  [p \in 1..Len(entries) |-> <<year_int(entries[p]), entries[p]>>]

RECURSIVE pool_entries(_)
pool_entries(bib_files) ==
    IF bib_files = <<>> THEN <<>>
    ELSE LET entries == parse_file(Head(bib_files))
         IN  [p \in 1..Len(entries) |-> <<year_int(entries[p]), entries[p]>>]
             \o pool_entries(Tail(bib_files))

\* (mutant) an unstable sort: x goes before the elements of its own key
RECURSIVE insert_before_equal(_, _)
insert_before_equal(sorted_entries, x) ==
    IF sorted_entries = <<>> THEN <<x>>
    ELSE IF sorted_entries[Len(sorted_entries)][1] < x[1] THEN Append(sorted_entries, x)
    ELSE Append(insert_before_equal(SubSeq(sorted_entries, 1, Len(sorted_entries) - 1), x),
                sorted_entries[Len(sorted_entries)])

\* list.sort(key=lambda x: x[0]) is stable: x goes behind every element whose
\* key is not greater than its own.
RECURSIVE insert_by_year(_, _)
insert_by_year(sorted_entries, x) ==
    IF sorted_entries = <<>> THEN <<x>>
    ELSE IF sorted_entries[Len(sorted_entries)][1] <= x[1] THEN Append(sorted_entries, x)
    ELSE Append(insert_by_year(SubSeq(sorted_entries, 1, Len(sorted_entries) - 1), x),
                sorted_entries[Len(sorted_entries)])

\* (mutant) the sort left out
unsorted(all_entries) == all_entries

RECURSIVE sort_by_year(_)
sort_by_year(all_entries) ==
    IF all_entries = <<>> THEN <<>>
    ELSE insert_by_year(sort_by_year(SubSeq(all_entries, 1, Len(all_entries) - 1)),
                        all_entries[Len(all_entries)])

\* (mutant) truncation from three authors on instead of from four
authors_html_from_three(entry, first_author_table) ==
    LET authors_list ==
            [a \in 1..Len(entry.persons) |-> latex_to_unicode(entry.persons[a])]
        bolded ==
            [authors_list EXCEPT ![1] = BOLD_OPEN \o @ \o BOLD_CLOSE]
    IN  IF first_author_table /\ authors_list /= <<>>
        THEN IF Len(bolded) >= 3
             THEN join(COMMA, SubSeq(bolded, 1, 3)) \o ET_AL
             ELSE join(COMMA, bolded)
        ELSE IF authors_list /= <<>> THEN join(COMMA, authors_list) ELSE UNKNOWN

authors_html(entry, first_author_table) ==
    LET authors_list ==
            [a \in 1..Len(entry.persons) |-> latex_to_unicode(entry.persons[a])]
        bolded ==
            [authors_list EXCEPT ![1] = BOLD_OPEN \o @ \o BOLD_CLOSE]
    IN  IF first_author_table /\ authors_list /= <<>>
        THEN IF Len(bolded) > 3
             THEN join(COMMA, SubSeq(bolded, 1, 3)) \o ET_AL
             ELSE join(COMMA, bolded)
        ELSE IF authors_list /= <<>> THEN join(COMMA, authors_list) ELSE UNKNOWN

\* (mutant) the url field preferred to the doi field
link_url_first(entry) ==
    LET doi == Get(entry.fields, "doi", <<>>)
    IN  IF "url" \in DOMAIN entry.fields THEN entry.fields["url"]
        ELSE IF doi /= <<>> THEN DOI_PREFIX \o doi ELSE HASH

\* the href of the title's anchor
link_url(entry) ==
    LET doi == Get(entry.fields, "doi", <<>>)
    IN  IF doi /= <<>> THEN DOI_PREFIX \o doi ELSE Get(entry.fields, "url", HASH)

\* <a href="{url}" target="_blank">{title}</a>
title_html(entry) ==
    [href |-> link_url(entry),
     text |-> latex_to_unicode(Get(entry.fields, "title", NO_TITLE))]

journal_info(year, entry) ==
    LET journal == normalize_journal(Get(entry.fields, "journal", <<>>))
        volume == Get(entry.fields, "volume", <<>>)
        pages == Get(entry.fields, "pages", <<>>)
    IN  join(COMMA, filter_nonempty(<<journal, volume, pages, str(year)>>))

\* row_html: the four cells of the <tr>
table_row(i, year, entry, first_author_table) ==
    [i |-> i,
     authors_html |-> authors_html(entry, first_author_table),
     title_html |-> title_html(entry),
     journal_info |-> journal_info(year, entry)]

bib_to_table_rows(bib_files, first_author_table) ==
    LET all_entries == sort_by_year(pool_entries(bib_files))
    IN  [i \in 1..Len(all_entries) |->
            table_row(i, all_entries[i][1], all_entries[i][2], first_author_table)]

\* generate_table: what it adds to main's tables (nothing for no files)
generate_table(title, bib_files, first_author_table) ==
    IF bib_files = <<>> THEN <<>>
    ELSE <<[title |-> title,
            first_author_table |-> first_author_table,
            rows |-> bib_to_table_rows(bib_files, first_author_table)]>>

\* (mutant) a file that fails to parse taken as an empty one
ParseFailureIgnored(bib_files) == TRUE

AllParse(bib_files) == \A f \in 1..Len(bib_files) : bib_files[f].ok

\* main, lines 195-198, every --first file parsing
GenerateFirst ==
    /\ pc = "first"
    /\ AllParse(args_first)
    /\ tables' = tables \o generate_table("Refereed Articles (First author)",
                                          args_first, TRUE)
    /\ pc' = "Nth"
    /\ UNCHANGED <<args_first, args_Nth, output_html, presvars>>

\* main, lines 195-198, parse_file raising on a --first file
FailFirst ==
    /\ pc = "first"
    /\ ~AllParse(args_first)
    /\ pc' = "failed"
    /\ UNCHANGED <<args_first, args_Nth, tables, output_html, presvars>>

\* main, lines 199-204, every --Nth file parsing
GenerateNth ==
    /\ pc = "Nth"
    /\ AllParse(args_Nth)
    /\ tables' = tables \o generate_table("Refereed Articles (Nth author)",
                                          args_Nth, FALSE)
    /\ pc' = "write"
    /\ UNCHANGED <<args_first, args_Nth, output_html, presvars>>

\* main, lines 199-202, parse_file raising on a --Nth file
FailNth ==
    /\ pc = "Nth"
    /\ ~AllParse(args_Nth)
    /\ pc' = "failed"
    /\ UNCHANGED <<args_first, args_Nth, tables, output_html, presvars>>

\* main, lines 206-210
WriteOutput ==
    /\ pc = "write"
    /\ output_html' = [written |-> TRUE, tables |-> tables]
    /\ pc' = "done"
    /\ UNCHANGED <<args_first, args_Nth, tables, presvars>>

----------------------------------------------------------------------------
(* presentation_html.py *)

\* The keys make_table_html and count_per_year read, and the literals.
KEY_PRESENTERS == <<"P", "r", "e", "s", "e", "n", "t", "e", "r", "s">>
KEY_TITLE == <<"T", "i", "t", "l", "e">>
KEY_EVENT == <<"E", "v", "e", "n", "t">>
KEY_LOCATION == <<"L", "o", "c", "a", "t", "i", "o", "n">>
KEY_DATES == <<"D", "a", "t", "e", "s">>
KEY_TYPE == <<"T", "y", "p", "e">>
KEY_URL == <<"U", "R", "L">>
KEY_MEMO == <<"M", "e", "m", "o">>
NONE_TEXT == <<"N", "o", "n", "e">>
EN_DASH == "U+2013"

\* current[key] = val
SetItem(d, key, val) ==
    [k \in (DOMAIN d) \cup {key} |-> IF k = key THEN val ELSE d[k]]

HasColon(line) == \E c \in 1..Len(line) : line[c] = ":"
FirstColon(line) ==
    CHOOSE c \in 1..Len(line) :
        line[c] = ":" /\ \A b \in 1..(c - 1) : line[b] /= ":"

\* parse_txt_file's loop over the lines left, then the statements after it
RECURSIVE parse_lines(_, _, _)
parse_lines(lines, entries, current) ==
    IF lines = <<>>
    THEN IF DOMAIN current /= {} THEN Append(entries, current) ELSE entries
    ELSE LET line == strip(Head(lines))
         IN  IF line = <<>>
             THEN IF DOMAIN current /= {}
                  THEN parse_lines(Tail(lines), Append(entries, current), EmptyDict)
                  ELSE parse_lines(Tail(lines), entries, current)
             ELSE IF ~HasColon(line)
             THEN parse_lines(Tail(lines), entries, current)
             ELSE LET c == FirstColon(line)
                      key == SubSeq(line, 1, c - 1)
                      val == SubSeq(line, c + 1, Len(line))
                  IN  parse_lines(Tail(lines), entries,
                                  SetItem(current, strip(key), strip(val)))

\* (mutant) the record still open at the end of the file forgotten
parse_without_last_record(txt_file) ==
    LET blanks == {l \in 1..Len(txt_file.lines) : strip(txt_file.lines[l]) = <<>>}
        last_blank == IF blanks = {} THEN 0
                      ELSE CHOOSE l \in blanks : \A m \in blanks : m <= l
    IN  parse_lines(SubSeq(txt_file.lines, 1, last_blank), <<>>, EmptyDict)

\* The file iterates as its lines, each with its line end, the last one with
\* or without.  open() raises on a file that cannot be read or decoded
\* (txt_file.readable = FALSE).
parse_txt_file(txt_file) == parse_lines(txt_file.lines, <<>>, EmptyDict)

\* make_table_html: the cells of each <tr> under the heading
make_table_html(entries, title) ==
    [title |-> title,
     rows |-> [i \in 1..Len(entries) |->
        LET e == entries[i]
            url == strip(Get(e, KEY_URL, <<>>))
            title_val == Get(e, KEY_TITLE, NO_TITLE)
        IN  [i |-> i,
             presenters |-> Get(e, KEY_PRESENTERS, UNKNOWN),
             title_html |-> IF url /= <<>>
                            THEN [linked |-> TRUE, href |-> url, text |-> title_val]
                            ELSE [linked |-> FALSE, href |-> <<>>, text |-> title_val],
             event |-> Get(e, KEY_EVENT, <<>>),
             location |-> Get(e, KEY_LOCATION, <<>>),
             dates |-> Get(e, KEY_DATES, <<>>),
             type_val |-> Get(e, KEY_TYPE, <<>>),
             memo |-> Get(e, KEY_MEMO, <<>>)]]]

\* re.split(r'[;–]', dates)[0]
RECURSIVE before_separator(_)
before_separator(dates) ==
    IF dates = <<>> \/ Head(dates) \in {";", EN_DASH} THEN <<>>
    ELSE <<Head(dates)>> \o before_separator(Tail(dates))

\* (mutant) start_date[:5]
year_text_five(dates) ==
    LET start_date == strip(before_separator(dates))
    IN  SubSeq(start_date, 1, IF Len(start_date) < 5 THEN Len(start_date) ELSE 5)

\* start_date[:4]
year_text(dates) ==
    LET start_date == strip(before_separator(dates))
    IN  SubSeq(start_date, 1, IF Len(start_date) < 4 THEN Len(start_date) ELSE 4)

\* counts[year] += 1 on a Counter
Increment(counts, year) ==
    [y \in (DOMAIN counts) \cup {year} |->
        IF y = year THEN Get(counts, y, 0) + 1 ELSE counts[y]]

RECURSIVE count_from(_, _)
count_from(entries, counts) ==
    IF entries = <<>> THEN counts
    ELSE LET dates == Get(Head(entries), KEY_DATES, <<>>)
         IN  IF dates /= <<>> /\ IsIntLiteral(year_text(dates))
             THEN count_from(Tail(entries), Increment(counts, int(year_text(dates))))
             ELSE count_from(Tail(entries), counts)

count_per_year(entries) == count_from(entries, [y \in {} |-> 0])

\* sorted(years)
RECURSIVE sorted(_)
sorted(years) ==
    IF years = {} THEN <<>>
    ELSE LET least == CHOOSE y \in years : \A z \in years : y <= z
         IN  <<least>> \o sorted(years \ {least})

\* plot_yearly_counts_scatter: the three series the figure file holds.  (Line
\* 167 of the script ends in a stray U+30FC after the call; the statements are
\* modelled as written without it.)
plot_yearly_counts_scatter(dom_entries, int_entries) ==
    LET domestic_counts == count_per_year(dom_entries)
        international_counts == count_per_year(int_entries)
        all_years == sorted((DOMAIN domestic_counts) \cup (DOMAIN international_counts))
        domestic_vals == [k \in 1..Len(all_years) |-> Get(domestic_counts, all_years[k], 0)]
        international_vals ==
            [k \in 1..Len(all_years) |-> Get(international_counts, all_years[k], 0)]
    IN  [written |-> TRUE,
         all_years |-> all_years,
         domestic_vals |-> domestic_vals,
         international_vals |-> international_vals,
         total_vals |-> [k \in 1..Len(all_years) |->
                            domestic_vals[k] + international_vals[k]]]

\* (mutant) the chart drawn in every run
chart_always(fig_arg) == TRUE

\* `if args.fig:` -- a path was given and is not the empty string
chart_requested(fig_arg) == fig_arg.given /\ fig_arg.path /= <<>>

\* "{fig_file}".format(fig_file=args.fig)
format_fig(fig_arg) == IF fig_arg.given THEN fig_arg.path ELSE NONE_TEXT

\* datetime.datetime.now().strftime("%Y-%m-%d"): the day of the run
Today == {"2025-04-19", "2025-04-20"}

\* main, line 189
ParseDomestic ==
    /\ p_pc = "domestic"
    /\ domestic.readable
    /\ domestic_entries' = parse_txt_file(domestic)
    /\ p_pc' = "international"
    /\ UNCHANGED <<domestic, international, fig, international_entries,
                   p_output, image, bibvars>>

\* main, line 189, open() raising
FailDomestic ==
    /\ p_pc = "domestic"
    /\ ~domestic.readable
    /\ p_pc' = "failed"
    /\ UNCHANGED <<domestic, international, fig, domestic_entries,
                   international_entries, p_output, image, bibvars>>

\* main, line 190
ParseInternational ==
    /\ p_pc = "international"
    /\ international.readable
    /\ international_entries' = parse_txt_file(international)
    /\ p_pc' = "write"
    /\ UNCHANGED <<domestic, international, fig, domestic_entries,
                   p_output, image, bibvars>>

\* main, line 190, open() raising
FailInternational ==
    /\ p_pc = "international"
    /\ ~international.readable
    /\ p_pc' = "failed"
    /\ UNCHANGED <<domestic, international, fig, domestic_entries,
                   international_entries, p_output, image, bibvars>>

\* main, lines 192-205: the page is formatted and written
WriteHtml ==
    /\ p_pc = "write"
    /\ \E now \in Today :
        p_output' =
            [written |-> TRUE,
             last_update |-> now,
             fig_file |-> format_fig(fig),
             tables |-> <<make_table_html(domestic_entries, "Domestic Presentations"),
                          make_table_html(international_entries,
                                          "International Presentations")>>]
    /\ p_pc' = IF chart_requested(fig) THEN "plot" ELSE "done"
    /\ UNCHANGED <<domestic, international, fig, domestic_entries,
                   international_entries, image, bibvars>>

\* main, lines 206-207
PlotChart ==
    /\ p_pc = "plot"
    /\ image' = plot_yearly_counts_scatter(domestic_entries, international_entries)
    /\ p_pc' = "done"
    /\ UNCHANGED <<domestic, international, fig, domestic_entries,
                   international_entries, p_output, bibvars>>

----------------------------------------------------------------------------
(* The runs that are checked. *)

MaxFiles == 2      \* files per flag
MaxEntries == 3    \* entries pooled from the --first files
MaxAuthors == 4    \* authors of an entry
MaxLines == 3      \* lines of the domestic log

\* An optional field is <<>> (absent) or <<value>>.
Opt(key, option) == IF option = <<>> THEN EmptyDict ELSE (key :> option[1])

Entry(title, year, doi, url, journal, volume, pages, persons) ==
    [fields |-> Opt("title", title) @@ Opt("year", year) @@ Opt("doi", doi)
                @@ Opt("url", url) @@ Opt("journal", journal)
                @@ Opt("volume", volume) @@ Opt("pages", pages),
     persons |-> persons]

AuthorName(a) ==
    IF a = 1
    THEN <<"{", "M", "\\", "\"", "u", "l", "l", "e", "r", "}", ",", " ", "J", ".">>
    ELSE <<"A", "u", "t", "h", "o", "r", " ">> \o str(a)

Authors(n) == [a \in 1..n |-> AuthorName(a)]

\* A title no other entry of the run has: flag, file and position.
Title(flag, f, p) == <<flag>> \o str(f) \o <<".">> \o str(p)

YearTexts ==
    {<<"2", "0", "1", "9">>, <<"2", "0", "2", "1">>, <<"9", "9", "9", "9">>,
     <<"n", ".", "d", ".">>}
YearOptions == {<<>>} \cup {<<y>> : y \in YearTexts}

\* A well-formed file of entries that differ in year only.
YearFile(flag, f, years) ==
    [ok |-> TRUE,
     entries |-> [p \in 1..Len(years) |->
        Entry(<<Title(flag, f, p)>>, years[p], <<>>, <<>>, <<>>, <<>>, <<>>,
              Authors(1))]]

BadFile == [ok |-> FALSE, entries |-> <<>>]

\* The files a pooled sequence of n years is cut into: file f holds the years
\* after cut f - 1 up to cut f.  Of several files none is empty.
Cuts(k, n) ==
    {cut \in [1..k -> 0..n] :
        /\ \A f \in 1..(k - 1) : cut[f] < cut[f + 1]
        /\ k > 0 => cut[k] = n
        /\ k > 1 => cut[1] > 0}

CutFiles(flag, years, cut) ==
    [f \in 1..Len(cut) |->
        YearFile(flag, f, SubSeq(years, (IF f = 1 THEN 0 ELSE cut[f - 1]) + 1, cut[f]))]

\* Runs that render one entry: over its authors and link fields, and over
\* the fields of its journal info, under either flag.
CAFE_TITLE == <<"C", "a", "f", "\\", "'", "e", " ", "{", "S", "}", "k", "y">>

FieldEntries ==
    {Entry(<<CAFE_TITLE>>, << <<"2", "0", "2", "1">> >>, doi, url, <<>>, <<>>, <<>>,
           Authors(n)) :
        doi \in {<<>>, << <<>> >>, << <<"1", "0", ".", "1", "/", "x">> >>},
        url \in {<<>>, << <<>> >>, << <<"h", "t", "t", "p", ":", "/", "/", "u">> >>},
        n \in 0..MaxAuthors}
    \cup
    {Entry(<<CAFE_TITLE>>, year, <<>>, <<>>, journal, volume, pages, Authors(1)) :
        year \in {<<>>, << <<"2", "0", "2", "1">> >>},
        journal \in {<<>>, << <<"\\", "a", "p", "j">> >>,
                     << <<" ", "\\", "a", "a", "p", " ">> >>,
                     << <<"U", "n", "l", "i", "s", "t", "e", "d">> >>,
                     << <<" ", " ">> >>},
        volume \in {<<>>, << <<>> >>, << <<"1", "2">> >>},
        pages \in {<<>>, << <<"1", "-", "-", "5">> >>}}

\* A file that fails to parse, an empty one, or one of one entry.
FileOfKind(flag, f, kind) ==
    IF kind = "bad" THEN BadFile
    ELSE IF kind = "empty" THEN YearFile(flag, f, <<>>)
    ELSE YearFile(flag, f, << << <<"2", "0", "2", "1">> >> >>)

KindFiles(flag, kinds) == [f \in 1..Len(kinds) |-> FileOfKind(flag, f, kinds[f])]

\* The lines a log is made of, without their line ends.
LineTexts ==
    {<<>>,
     <<" ", "\t">>,
     <<"j", "u", "n", "k">>,
     <<" ", "T", "i", "t", "l", "e", " ", ":", " ", "A", ":", "b", " ">>,
     <<"D", "a", "t", "e", "s", ":", " ", "2", "0", "2", "3", "-", "0", "4", "-",
       "1", "0", ";", " ", "2", "0", "2", "3", "-", "0", "4", "-", "1", "2">>,
     <<"D", "a", "t", "e", "s", ":", " ", "T", "B", "D">>,
     <<"D", "a", "t", "e", "s", ":", " ", "2", "0", "2", "4", "U+2013", "2", "0",
       "2", "5">>}

\* A readable file: every line ends in a line end, the last one with or
\* without (a last line without one is not empty).
TextFile(body, ended) ==
    [readable |-> TRUE,
     lines |-> [l \in 1..Len(body) |->
                  IF l < Len(body) \/ ended THEN body[l] \o <<"\n">> ELSE body[l]]]

Unreadable == [readable |-> FALSE, lines |-> <<>>]

LOG_2023 ==
    <<"D", "a", "t", "e", "s", ":", " ", "2", "0", "2", "3", "-", "0", "5", "-", "0",
      "1", "\n">>
LOG_TITLE == <<"T", "i", "t", "l", "e", ":", " ", "I", "\n">>
LOG_TBD == <<"D", "a", "t", "e", "s", ":", " ", "T", "B", "D">>

\* Two records, the second one ended by the end of the file.
GoodLog == [readable |-> TRUE, lines |-> <<LOG_2023, LOG_TITLE, <<"\n">>, LOG_TBD>>]

FIG_PATH == <<"f", "i", "g", "/", "n", ".", "p", "n", "g">>

\* --fig absent, --fig "" and --fig fig/n.png
FigArgs ==
    {[given |-> FALSE, path |-> <<>>],
     [given |-> TRUE, path |-> <<>>],
     [given |-> TRUE, path |-> FIG_PATH]}

NoOutput == [written |-> FALSE, tables |-> <<>>]
NoPage == [written |-> FALSE, last_update |-> "", fig_file |-> <<>>, tables |-> <<>>]
NoImage ==
    [written |-> FALSE, all_years |-> <<>>, domestic_vals |-> <<>>,
     international_vals |-> <<>>, total_vals |-> <<>>]

BibIdle ==
    /\ args_first = <<>>
    /\ args_Nth = <<>>
    /\ pc = "idle"
    /\ tables = <<>>
    /\ output_html = NoOutput

PresIdle ==
    /\ domestic = Unreadable
    /\ international = Unreadable
    /\ fig = [given |-> FALSE, path |-> <<>>]
    /\ p_pc = "idle"
    /\ domestic_entries = <<>>
    /\ international_entries = <<>>
    /\ p_output = NoPage
    /\ image = NoImage

BibStart == pc = "first" /\ tables = <<>> /\ output_html = NoOutput /\ PresIdle

PresStart ==
    /\ p_pc = "domestic"
    /\ domestic_entries = <<>>
    /\ international_entries = <<>>
    /\ p_output = NoPage
    /\ image = NoImage
    /\ BibIdle

\* bibtex2html.py pooling and sorting: at most MaxEntries entries of several
\* years in at most MaxFiles --first files.
InitSort ==
    /\ \E n \in 0..MaxEntries, k \in 0..MaxFiles :
        \E years \in [1..n -> YearOptions], cut \in Cuts(k, n) :
            /\ k = 0 => n = 0
            /\ args_first = CutFiles("F", years, cut)
    /\ args_Nth = <<>>
    /\ BibStart

\* bibtex2html.py rendering one entry, under either flag.
InitFields ==
    /\ \E e \in FieldEntries, first_author_table \in BOOLEAN :
        LET file == [ok |-> TRUE, entries |-> <<e>>]
        IN  /\ args_first = IF first_author_table THEN <<file>> ELSE <<>>
            /\ args_Nth = IF first_author_table THEN <<>> ELSE <<file>>
    /\ BibStart

\* bibtex2html.py on files any of which may fail to parse.
InitFail ==
    /\ \E k \in 0..MaxFiles, n \in 0..MaxFiles :
        \E first \in [1..k -> {"bad", "empty", "one"}],
           nth \in [1..n -> {"bad", "empty", "one"}] :
            /\ args_first = KindFiles("F", first)
            /\ args_Nth = KindFiles("N", nth)
    /\ BibStart

\* presentation_html.py over the domestic log.
InitLogs ==
    /\ \E k \in 0..MaxLines :
        \E body \in [1..k -> LineTexts], ended \in BOOLEAN :
            /\ (k = 0 \/ body[k] = <<>>) => ended
            /\ domestic = TextFile(body, ended)
    /\ international = GoodLog
    /\ fig = [given |-> TRUE, path |-> FIG_PATH]
    /\ PresStart

\* presentation_html.py over which files can be read and what --fig is.
InitArgs ==
    /\ domestic \in {Unreadable, GoodLog}
    /\ international \in {Unreadable, [readable |-> TRUE, lines |-> <<>>], GoodLog}
    /\ fig \in FigArgs
    /\ PresStart

\* A run is one invocation of one of the two scripts.
Init == InitSort \/ InitFields \/ InitFail \/ InitLogs \/ InitArgs

Next ==
    \/ GenerateFirst
    \/ FailFirst
    \/ GenerateNth
    \/ FailNth
    \/ WriteOutput
    \/ ParseDomestic
    \/ FailDomestic
    \/ ParseInternational
    \/ FailInternational
    \/ WriteHtml
    \/ PlotChart

Spec == Init /\ [][Next]_vars

----------------------------------------------------------------------------
(* What the claims speak of. *)

\* The files a generated table was made from.
FilesOf(t) == IF t.first_author_table THEN args_first ELSE args_Nth

\* The entries of the files in insertion order: the files as given, then the
\* entries within each file.
RECURSIVE Pooled(_)
Pooled(files) ==
    IF files = <<>> THEN <<>> ELSE Head(files).entries \o Pooled(Tail(files))

\* The tables the step just taken generated: the rows of a table are looked at
\* in the state that follows its generation, and never change after it.
JustMade ==
    {k \in 1..Len(tables) :
        \/ pc = "Nth" /\ tables[k].first_author_table
        \/ pc = "write" /\ ~tables[k].first_author_table}

\* The row of table t that shows entry e (titles differ within a table).
TitleShown(e) == latex_to_unicode(Get(e.fields, "title", NO_TITLE))
RowOf(t, e) ==
    LET shown == TitleShown(e)
    IN  CHOOSE i \in 1..Len(t.rows) : t.rows[i].title_html.text = shown
HasRow(t, e) ==
    LET shown == TitleShown(e)
    IN  \E i \in 1..Len(t.rows) : t.rows[i].title_html.text = shown

\* For every pooled entry the number of its row.
RowsOf(t, pool) == [a \in 1..Len(pool) |-> RowOf(t, pool[a])]

YearParses(e) == "year" \in DOMAIN e.fields /\ IsIntLiteral(e.fields["year"])
YearValue(e) == int(e.fields["year"])
SortYear(e) == IF YearParses(e) THEN YearValue(e) ELSE SENTINEL_YEAR

EndsWith(s, p) == Len(p) <= Len(s) /\ SubSeq(s, Len(s) - Len(p) + 1, Len(s)) = p
FirstAt(p, s) ==
    CHOOSE i \in 1..(Len(s) - Len(p) + 1) :
        /\ SubSeq(s, i, i + Len(p) - 1) = p
        /\ \A j \in 1..(i - 1) : SubSeq(s, j, j + Len(p) - 1) /= p

\* The year a row shows: what follows the last ", " of its journal info.
LastPart(text) ==
    LET seps == {i \in 1..(Len(text) - 1) : SubSeq(text, i, i + 1) = COMMA}
    IN  IF seps = {} THEN text
        ELSE SubSeq(text, (CHOOSE i \in seps : \A j \in seps : j <= i) + 2, Len(text))
RowYear(row) == int(LastPart(row.journal_info))

RowsAscend(t) ==
    \A i \in 1..(Len(t.rows) - 1) : RowYear(t.rows[i]) <= RowYear(t.rows[i + 1])

\* C1 as stated: the rows of a table are in non-decreasing order of year, and
\* every entry whose year is missing or does not parse comes after every entry
\* whose year parses.
C1_UnparseableAfterAllParsed ==
    \A k \in JustMade :
        LET t == tables[k]
            pool == Pooled(FilesOf(t))
            row == RowsOf(t, pool)
        IN  /\ RowsAscend(t)
            /\ \A a, b \in 1..Len(pool) :
                (~YearParses(pool[a]) /\ YearParses(pool[b]))
                    => row[a] > row[b]

\* C1 amended: the rows of a table are in non-decreasing order of year, and
\* every entry whose year is missing or does not parse comes after every entry
\* whose year parses to less than the sentinel 9999.
C1_UnparseableAfterYearsBelowSentinel ==
    \A k \in JustMade :
        LET t == tables[k]
            pool == Pooled(FilesOf(t))
            row == RowsOf(t, pool)
        IN  /\ RowsAscend(t)
            /\ \A a, b \in 1..Len(pool) :
                (~YearParses(pool[a]) /\ YearParses(pool[b])
                 /\ YearValue(pool[b]) < SENTINEL_YEAR)
                    => row[a] > row[b]

\* A table whose input has an entry without a parsable year before an entry
\* of a real year, and two real years in descending order.
C1_Witness ==
    \E k \in 1..Len(tables) :
        LET pool == Pooled(FilesOf(tables[k]))
        IN  \E a, b, c \in 1..Len(pool) :
                /\ a < b /\ b < c
                /\ ~YearParses(pool[a])
                /\ YearParses(pool[b]) /\ YearParses(pool[c])
                /\ YearValue(pool[c]) < YearValue(pool[b])
                /\ YearValue(pool[b]) < SENTINEL_YEAR

AllOk(files) == \A f \in 1..Len(files) : files[f].ok

\* C2: in both converters the output file is written only after every input
\* file has parsed, so a run that fails on an input leaves the output file
\* (and the chart) untouched.
C2_NoOutputUnlessAllInputsParse ==
    /\ output_html.written => AllOk(args_first) /\ AllOk(args_Nth)
    /\ pc = "failed" => ~output_html.written
    /\ p_output.written => domestic.readable /\ international.readable
    /\ p_pc = "failed" => ~p_output.written /\ ~image.written

\* A run that failed on a --Nth file after the --first table was made.
C2_Witness == pc = "failed" /\ tables /= <<>> /\ AllOk(args_first)

\* The lines of a log as parse_txt_file sees them, and its blocks: the
\* maximal runs of lines that are not blank.
StrippedLines(file) == [l \in 1..Len(file.lines) |-> strip(file.lines[l])]
BlockStarts(L) == {l \in 1..Len(L) : L[l] /= <<>> /\ (l = 1 \/ L[l - 1] = <<>>)}
BlockEnd(L, s) ==
    CHOOSE e \in s..Len(L) :
        /\ \A l \in s..e : L[l] /= <<>>
        /\ e = Len(L) \/ L[e + 1] = <<>>
FieldLines(L, s) == {l \in s..BlockEnd(L, s) : HasColon(L[l])}
KeyOf(line) == strip(SubSeq(line, 1, FirstColon(line) - 1))
ValueOf(line) == strip(SubSeq(line, FirstColon(line) + 1, Len(line)))

\* The record of the block that starts at line s: for every key the value of
\* the last line of the block that gives it.
RecordOf(L, s) ==
    [key \in {KeyOf(L[l]) : l \in FieldLines(L, s)} |->
        ValueOf(L[CHOOSE l \in FieldLines(L, s) :
                    /\ KeyOf(L[l]) = key
                    /\ \A m \in FieldLines(L, s) : KeyOf(L[m]) = key => m <= l])]

ParsedByBlocks(file, entries) ==
    LET L == StrippedLines(file)
        starts == sorted({s \in BlockStarts(L) : FieldLines(L, s) /= {}})
    IN  /\ Len(entries) = Len(starts)
        /\ \A k \in 1..Len(entries) :
            /\ entries[k] = RecordOf(L, starts[k])
            /\ DOMAIN entries[k] /= {}

ET_AL_WORDS == <<"e", "t", " ", "a", "l", ".">>

InOrder(names, html) ==
    /\ \A a \in 1..Len(names) : Occurs(names[a], html)
    /\ \A a, b \in 1..Len(names) :
        a < b => FirstAt(names[a], html) < FirstAt(names[b], html)

AuthorsAsClaimed(html, e, first_author_table) ==
    LET names == [a \in 1..Len(e.persons) |-> latex_to_unicode(e.persons[a])]
    IN  IF first_author_table /\ Len(names) > 3
        THEN /\ InOrder(SubSeq(names, 1, 3), html)
             /\ \A a \in 4..Len(names) : ~Occurs(names[a], html)
             /\ EndsWith(html, names[3] \o ET_AL)
        ELSE /\ InOrder(names, html)
             /\ ~Occurs(ET_AL_WORDS, html)

\* C4: under --first a row of an entry of at most three authors shows all of
\* them and no "et al.", a row of an entry of more than three shows the first
\* three in order and then "et al."; under --Nth a row shows every author.
C4_AuthorsShown ==
    \A k \in JustMade :
        LET t == tables[k]
            pool == Pooled(FilesOf(t))
        IN  \A a \in 1..Len(pool) :
                /\ HasRow(t, pool[a])
                /\ AuthorsAsClaimed(t.rows[RowOf(t, pool[a])].authors_html,
                                    pool[a], t.first_author_table)

\* A --first table of an entry of more than three authors.
C4_Witness ==
    \E k \in 1..Len(tables) :
        /\ tables[k].first_author_table
        /\ \E a \in 1..Len(Pooled(args_first)) :
            Len(Pooled(args_first)[a].persons) > 3

\* C5 as stated: the link is https://doi.org/<doi> whenever the entry has a doi
\* field, else its url field, else "#".
C5_DoiFieldPresent ==
    \A k \in JustMade :
        LET t == tables[k]
            pool == Pooled(FilesOf(t))
        IN  \A a \in 1..Len(pool) :
                t.rows[RowOf(t, pool[a])].title_html.href =
                    IF "doi" \in DOMAIN pool[a].fields
                    THEN DOI_PREFIX \o pool[a].fields["doi"]
                    ELSE IF "url" \in DOMAIN pool[a].fields
                    THEN pool[a].fields["url"]
                    ELSE HASH

\* C5 amended: the link is https://doi.org/<doi> whenever the entry has a doi
\* field that is not empty, whether or not it has a url field; else its url
\* field; else "#".
C5_DoiFieldNotEmpty ==
    \A k \in JustMade :
        LET t == tables[k]
            pool == Pooled(FilesOf(t))
        IN  \A a \in 1..Len(pool) :
                t.rows[RowOf(t, pool[a])].title_html.href =
                    IF "doi" \in DOMAIN pool[a].fields /\ pool[a].fields["doi"] /= <<>>
                    THEN DOI_PREFIX \o pool[a].fields["doi"]
                    ELSE IF "url" \in DOMAIN pool[a].fields
                    THEN pool[a].fields["url"]
                    ELSE HASH

\* A row of an entry that has a doi and a url.
C5_Witness ==
    \E k \in 1..Len(tables) :
        \E a \in 1..Len(Pooled(FilesOf(tables[k]))) :
            LET fields == Pooled(FilesOf(tables[k]))[a].fields
            IN  /\ "doi" \in DOMAIN fields /\ fields["doi"] /= <<>>
                /\ "url" \in DOMAIN fields /\ fields["url"] /= <<>>

RECURSIVE TotalEntries(_)
TotalEntries(files) ==
    IF files = <<>> THEN 0 ELSE Len(Head(files).entries) + TotalEntries(Tail(files))

\* C6: a table has as many rows as its files hold entries.
C6_RowCount ==
    \A k \in JustMade :
        Len(tables[k].rows) = TotalEntries(FilesOf(tables[k]))

\* A table of two files of entries, one of them without a parsable year.
C6_Witness ==
    \E k \in 1..Len(tables) :
        /\ Len(FilesOf(tables[k])) >= 2
        /\ \A f \in 1..2 : FilesOf(tables[k])[f].entries /= <<>>
        /\ \E a \in 1..Len(Pooled(FilesOf(tables[k]))) :
            ~YearParses(Pooled(FilesOf(tables[k]))[a])

\* The start year as C7 words it: the first four characters of the text
\* before the first ';' or en-dash of Dates.
TextBefore(dates) ==
    LET seps == {i \in 1..Len(dates) : dates[i] \in {";", EN_DASH}}
    IN  IF seps = {} THEN dates
        ELSE SubSeq(dates, 1, (CHOOSE i \in seps : \A j \in seps : i <= j) - 1)
FirstFour(text) == SubSeq(text, 1, IF Len(text) < 4 THEN Len(text) ELSE 4)
StartYearParses(e) == IsIntLiteral(FirstFour(TextBefore(Get(e, KEY_DATES, <<>>))))
StartYear(e) == int(FirstFour(TextBefore(Get(e, KEY_DATES, <<>>))))

InYear(entries, y) ==
    Cardinality({k \in 1..Len(entries) :
                    StartYearParses(entries[k]) /\ StartYear(entries[k]) = y})
Plotted(vals, y) ==
    IF \E k \in 1..Len(image.all_years) : image.all_years[k] = y
    THEN vals[CHOOSE k \in 1..Len(image.all_years) : image.all_years[k] = y]
    ELSE 0
YearsOf(entries) ==
    {StartYear(entries[k]) : k \in {j \in 1..Len(entries) : StartYearParses(entries[j])}}

RowsShowDates(t, entries) ==
    /\ Len(t.rows) = Len(entries)
    /\ \A k \in 1..Len(entries) : t.rows[k].dates = Get(entries[k], KEY_DATES, <<>>)

NotEmpty(text) == text /= <<>>

\* C9: the journal info of a row is the journal, volume, pages and year of its
\* entry that are not empty, in that order, with ", " between them: it neither
\* starts nor ends with a separator nor holds two in a row.
C9_JournalInfoJoined ==
    \A k \in JustMade :
        LET t == tables[k]
            pool == Pooled(FilesOf(t))
        IN  \A a \in 1..Len(pool) :
                LET info == t.rows[RowOf(t, pool[a])].journal_info
                    parts == <<normalize_journal(Get(pool[a].fields, "journal", <<>>)),
                               Get(pool[a].fields, "volume", <<>>),
                               Get(pool[a].fields, "pages", <<>>),
                               str(SortYear(pool[a]))>>
                IN  /\ info = join(COMMA, SelectSeq(parts, NotEmpty))
                    /\ ~StartsWith(info, COMMA)
                    /\ ~EndsWith(info, COMMA)
                    /\ ~Occurs(COMMA \o COMMA, info)

\* A row of an entry with an empty volume between a journal and pages.
C9_Witness ==
    \E k \in 1..Len(tables) :
        \E a \in 1..Len(Pooled(FilesOf(tables[k]))) :
            LET fields == Pooled(FilesOf(tables[k]))[a].fields
            IN  /\ "volume" \in DOMAIN fields /\ fields["volume"] = <<>>
                /\ "journal" \in DOMAIN fields /\ strip(fields["journal"]) /= <<>>
                /\ "pages" \in DOMAIN fields

\* C10: entries of equal year keep their insertion order in the rows (the
\* files as given, then the entries within each file), and the rows are
\* numbered 1..n in their final order.
C10_TiesKeepInsertionOrder ==
    \A k \in JustMade :
        LET t == tables[k]
            pool == Pooled(FilesOf(t))
            row == RowsOf(t, pool)
        IN  /\ \A i \in 1..Len(t.rows) : t.rows[i].i = i
            /\ \A a, b \in 1..Len(pool) :
                (a < b /\ SortYear(pool[a]) = SortYear(pool[b]))
                    => row[a] < row[b]

\* A table of two entries of equal year from different files, given before an
\* entry of an earlier year.
C10_Witness ==
    \E k \in 1..Len(tables) :
        /\ Len(FilesOf(tables[k])) >= 2
        /\ Len(FilesOf(tables[k])[1].entries) = 1
        /\ LET pool == Pooled(FilesOf(tables[k]))
           IN  /\ Len(pool) = 3
               /\ SortYear(pool[1]) = SortYear(pool[2])
               /\ SortYear(pool[3]) < SortYear(pool[1])

====
